---------------------------- MODULE Spec2Model ----------------------------
(* A model of PyTorch_TransformerScratch.ipynb: construction of the         *)
(* Transformer (Encoder, Decoder, TransformerBlock, DecoderBlock,           *)
(* SelfAttention) and its forward pass.                                     *)
(*                                                                          *)
(* Tensors are modelled by their shape, by the operation that produced them *)
(* and by the dropout draws their values depend on; the attention           *)
(* probabilities and the masks are modelled entry by entry.  Python         *)
(* indices are 0-based: position p of a sequence is element p+1 of the      *)
(* TLA+ sequence that models it.                                            *)
EXTENDS Integers, Sequences, FiniteSets, TLC

(***************************************************************************)
(* Bounds of the model                                                     *)
(***************************************************************************)
\* longest token sequence drawn as an input
MaxLen == 2

\* token ids drawn as inputs: 0 and 1 lie in every modelled vocabulary,
\* 2 lies outside a vocabulary of size 2
TokIds == {0, 1, 2}

(***************************************************************************)
(* Program constants                                                       *)
(***************************************************************************)
DefaultEmbedSize == 512
DefaultNumLayers == 6
DefaultForwardExpansion == 4
DefaultHeads == 8
DefaultDropout == 0
DefaultMaxLength == 100

\* float("-1e20"), the value written into the energy at masked positions.
\* The model's integers are 32 bits wide, so the sentinel is held as -10^9:
\* like -1e20 it is finite, and divided by sqrt(embed_size) it lies far
\* below the point where the float32 exponential underflows to 0.
MaskSentinel == -1000000000

\* float("-inf"): not a value the program writes; the softmax model knows it
\* because a row holding nothing else has no finite maximum.
NegInf == -2147483647

\* exp(x) is 0.0 in float32 for x <= -104 (the smallest denormal is 2^-149)
ExpUnderflow == 104

(***************************************************************************)
(* Generic helpers                                                         *)
(***************************************************************************)
RECURSIVE SeqSum(_)
SeqSum(s) == IF s = <<>> THEN 0 ELSE Head(s) + SeqSum(Tail(s))

RECURSIVE SeqProd(_)
SeqProd(s) == IF s = <<>> THEN 1 ELSE Head(s) * SeqProd(Tail(s))

RECURSIVE SeqMax(_)
SeqMax(s) ==
    IF Len(s) = 1 THEN s[1]
    ELSE LET m == SeqMax(Tail(s)) IN IF s[1] >= m THEN s[1] ELSE m

RECURSIVE ISqrtFrom(_, _)
ISqrtFrom(n, r) == IF (r + 1) * (r + 1) > n THEN r ELSE ISqrtFrom(n, r + 1)

\* floor of the square root
ISqrt(n) == ISqrtFrom(n, 0)

\* all sequences over S of length 1..n
SeqsUpTo(S, n) == UNION {[1..k -> S] : k \in 1..n}

(***************************************************************************)
(* Tensors: a shape, the operation that produced the values and the random *)
(* draws they depend on; a failed operation yields an error value that     *)
(* every later operation passes on (the Python exception unwinding the     *)
(* call)                                                                   *)
(***************************************************************************)
NoTag == [op |-> "none", layer |-> 0]

Tag(op, layer) == [op |-> op, layer |-> layer]

\* tag names the operation whose result the tensor is; noise is the set of
\* random dropout draws its values depend on
Tensor(shape, tag, noise) ==
    [ok |-> TRUE, shape |-> shape, tag |-> tag, noise |-> noise, err |-> "none"]

Raise(e) == [ok |-> FALSE, shape |-> <<>>, tag |-> NoTag, noise |-> {}, err |-> e]

NoTensor == Raise("unset")

\* t.shape of a batch of token sequences (a torch tensor of integers)
TokShape(x) == <<Len(x), Len(x[1])>>

(***************************************************************************)
(* Construction                                                            *)
(***************************************************************************)
Param(mod, layer, name) == [mod |-> mod, layer |-> layer, name |-> name]

\* a faulty constructor, which asserts nothing
SelfAttentionInitNoAssert(mod, layer, name, embed_size, heads) ==
    [ok |-> TRUE,
     made |-> << Param(mod, layer, name \o ".values"),
                 Param(mod, layer, name \o ".keys"),
                 Param(mod, layer, name \o ".queries"),
                 Param(mod, layer, name \o ".fc_out") >>]

\* SelfAttention.__init__: the weight tensors it creates, or the failed
\* assertion.  made lists the parameters created before returning/raising.
SelfAttentionInit(mod, layer, name, embed_size, heads) ==
    LET head_dim == embed_size \div heads IN
    IF head_dim * heads # embed_size
    THEN [ok |-> FALSE, made |-> <<>>]
    ELSE [ok |-> TRUE,
          made |-> << Param(mod, layer, name \o ".values"),
                      Param(mod, layer, name \o ".keys"),
                      Param(mod, layer, name \o ".queries"),
                      Param(mod, layer, name \o ".fc_out") >>]

\* TransformerBlock.__init__
TransformerBlockInit(mod, layer, name, embed_size, heads) ==
    LET a == SelfAttentionInit(mod, layer, name \o "attention", embed_size, heads) IN
    IF ~a.ok THEN a
    ELSE [ok |-> TRUE,
          made |-> a.made \o
                   << Param(mod, layer, name \o "norm1"),
                      Param(mod, layer, name \o "norm2"),
                      Param(mod, layer, name \o "feed_forward.0"),
                      Param(mod, layer, name \o "feed_forward.2") >>]

\* DecoderBlock.__init__
DecoderBlockInit(mod, layer, embed_size, heads) ==
    LET n == [ok |-> TRUE, made |-> << Param(mod, layer, "norm") >>]
        a == SelfAttentionInit(mod, layer, "attention", embed_size, heads)
        t == TransformerBlockInit(mod, layer, "transformer_block.", embed_size, heads)
    IN  IF ~a.ok THEN [ok |-> FALSE, made |-> n.made]
        ELSE IF ~t.ok THEN [ok |-> FALSE, made |-> n.made \o a.made \o t.made]
        ELSE [ok |-> TRUE, made |-> n.made \o a.made \o t.made]

\* the list comprehension building nn.ModuleList: blocks k..n in order, the
\* first failing constructor ends it
RECURSIVE BuildLayers(_, _, _, _, _)
BuildLayers(mod, k, n, embed_size, heads) ==
    IF k > n THEN [ok |-> TRUE, made |-> <<>>]
    ELSE LET b == IF mod = "encoder"
                  THEN TransformerBlockInit(mod, k, "", embed_size, heads)
                  ELSE DecoderBlockInit(mod, k, embed_size, heads)
         IN  IF ~b.ok THEN b
             ELSE LET r == BuildLayers(mod, k + 1, n, embed_size, heads)
                  IN  [ok |-> r.ok, made |-> b.made \o r.made]

\* Encoder.__init__
EncoderInit(c) ==
    LET e == << Param("encoder", 0, "word_embedding"),
                Param("encoder", 0, "position_embedding") >>
        l == BuildLayers("encoder", 1, c.num_layers, c.embed_size, c.heads)
    IN  [ok |-> l.ok, made |-> e \o l.made]

\* Decoder.__init__
DecoderInit(c) ==
    LET e == << Param("decoder", 0, "word_embedding"),
                Param("decoder", 0, "position_embedding") >>
        l == BuildLayers("decoder", 1, c.num_layers, c.embed_size, c.heads)
    IN  IF ~l.ok THEN [ok |-> FALSE, made |-> e \o l.made]
        ELSE [ok |-> TRUE, made |-> e \o l.made \o << Param("decoder", 0, "fc_out") >>]

\* Transformer.__init__: the encoder, then the decoder
TransformerInit(c) ==
    LET e == EncoderInit(c) IN
    IF ~e.ok THEN e
    ELSE LET d == DecoderInit(c)
         IN  [ok |-> d.ok, made |-> e.made \o d.made]

(***************************************************************************)
(* Tensor operations (torch / torch.nn), by shape                          *)
(***************************************************************************)
Last(s) == s[Len(s)]

Front(s) == SubSeq(s, 1, Len(s) - 1)

\* two sizes of one dimension broadcast together
DimsBroadcast(a, b) == a = b \/ a = 1 \/ b = 1

BroadcastDim(a, b) == IF a = 1 THEN b ELSE a

\* nn.Linear(in_features, out_features) applied to x
Linear(x, in_features, out_features, tag) ==
    IF ~x.ok THEN x
    ELSE IF Len(x.shape) = 0 \/ Last(x.shape) # in_features THEN Raise("RuntimeError")
    ELSE Tensor(Front(x.shape) \o <<out_features>>, tag, x.noise)

\* x.reshape(shape)
Reshape(x, shape) ==
    IF ~x.ok THEN x
    ELSE IF SeqProd(x.shape) # SeqProd(shape) THEN Raise("RuntimeError")
    ELSE Tensor(shape, x.tag, x.noise)

\* a + b for two tensors of the same rank
Add(a, b, tag) ==
    IF ~a.ok THEN a
    ELSE IF ~b.ok THEN b
    ELSE IF Len(a.shape) # Len(b.shape)
            \/ \E i \in 1..Len(a.shape) : ~DimsBroadcast(a.shape[i], b.shape[i])
         THEN Raise("RuntimeError")
    ELSE Tensor([i \in 1..Len(a.shape) |-> BroadcastDim(a.shape[i], b.shape[i])],
                tag, a.noise \cup b.noise)

\* nn.LayerNorm(normalized_shape) applied to x
LayerNorm(x, normalized_shape, tag) ==
    IF ~x.ok THEN x
    ELSE IF Len(x.shape) = 0 \/ Last(x.shape) # normalized_shape THEN Raise("RuntimeError")
    ELSE Tensor(x.shape, tag, x.noise)

\* a faulty dropout, which masks whatever p is
DropoutAlways(x, p, site, rng) ==
    IF ~x.ok THEN x
    ELSE Tensor(x.shape, x.tag, x.noise \cup {<<site[1], site[2], site[3], rng>>})

\* nn.Dropout(p) applied to x in training mode, the mode of a module that was
\* never switched to eval(): with p = 0 the input is returned as it is,
\* otherwise the values depend on the mask drawn at this call (site) from
\* the state rng of torch's global generator
Dropout(x, p, site, rng) ==
    IF ~x.ok THEN x
    ELSE IF p = 0 THEN x
    ELSE Tensor(x.shape, x.tag, x.noise \cup {<<site[1], site[2], site[3], rng>>})

\* a faulty lookup, which never fails
EmbeddingUnchecked(idx, num_embeddings, embedding_dim, tag) ==
    Tensor(TokShape(idx) \o <<embedding_dim>>, tag, {})

\* nn.Embedding(num_embeddings, embedding_dim) applied to a tensor of indices
\* given as a batch of index sequences
Embedding(idx, num_embeddings, embedding_dim, tag) ==
    IF \E b \in 1..Len(idx) : \E p \in 1..Len(idx[b]) :
           idx[b][p] < 0 \/ idx[b][p] >= num_embeddings
    THEN Raise("IndexError")
    ELSE Tensor(TokShape(idx) \o <<embedding_dim>>, tag, {})

\* torch.arange(0, seq_length).expand(N, seq_length)
Positions(N, seq_length) == [b \in 1..N |-> [p \in 1..seq_length |-> p - 1]]

(***************************************************************************)
(* Masks                                                                   *)
(***************************************************************************)
\* mask is None
NoMask == [dtype |-> "none", shape |-> <<>>, val |-> <<>>]

\* a faulty triangle, which keeps every entry
TrilOnes(n) == [i \in 1..n |-> [j \in 1..n |-> 1]]

\* a faulty triangle, which loses the diagonal
TrilStrict(n) == [i \in 1..n |-> [j \in 1..n |-> IF j < i THEN 1 ELSE 0]]

\* torch.tril(torch.ones((n, n)))
Tril(n) == [i \in 1..n |-> [j \in 1..n |-> IF j <= i THEN 1 ELSE 0]]

\* a faulty source mask, which tests the tokens against 0 instead of the
\* padding id
MakeSrcMaskZero(c, src) ==
    [dtype |-> "bool",
     shape |-> <<Len(src), 1, 1, Len(src[1])>>,
     val   |-> [b \in 1..Len(src) |->
                  << << [k \in 1..Len(src[b]) |-> IF src[b][k] # 0 THEN 1 ELSE 0] >> >>]]

\* Transformer.make_src_mask: (src != self.src_pad_idx).unsqueeze(1).unsqueeze(2);
\* True is held as 1, False as 0
MakeSrcMask(c, src) ==
    [dtype |-> "bool",
     shape |-> <<Len(src), 1, 1, Len(src[1])>>,
     val   |-> [b \in 1..Len(src) |->
                  << << [k \in 1..Len(src[b]) |->
                           IF src[b][k] # c.src_pad_idx THEN 1 ELSE 0] >> >>]]

\* a faulty target mask, which also hides the padding positions
MakeTrgMaskPadded(c, trg) ==
    LET N == TokShape(trg)[1]
        trg_len == TokShape(trg)[2]
    IN  [dtype |-> "float",
         shape |-> <<N, 1, trg_len, trg_len>>,
         val   |-> [b \in 1..N |->
                      << [i \in 1..trg_len |-> [j \in 1..trg_len |->
                            IF trg[b][j] = c.trg_pad_idx THEN 0 ELSE Tril(trg_len)[i][j]]] >>]]

\* Transformer.make_trg_mask: tril(ones((trg_len, trg_len))).expand(N, 1, trg_len, trg_len)
MakeTrgMask(c, trg) ==
    LET N == TokShape(trg)[1]
        trg_len == TokShape(trg)[2]
    IN  [dtype |-> "float",
         shape |-> <<N, 1, trg_len, trg_len>>,
         val   |-> [b \in 1..N |-> << Tril(trg_len) >>]]

\* index i of a dimension of size n under broadcasting
Bc(i, n) == IF n = 1 THEN 1 ELSE i

\* the entry of a 4-dimensional mask that broadcasting puts at [b, h, q, k]
MaskAt(mask, b, h, q, k) ==
    mask.val[Bc(b, mask.shape[1])][Bc(h, mask.shape[2])][Bc(q, mask.shape[3])][Bc(k, mask.shape[4])]

\* whether a mask of this shape broadcasts to an energy of that shape
MaskBroadcasts(mshape, eshape) ==
    /\ Len(mshape) = Len(eshape)
    /\ \A i \in 1..Len(eshape) : mshape[i] = 1 \/ mshape[i] = eshape[i]

(***************************************************************************)
(* Attention values                                                        *)
(***************************************************************************)
\* The weights are not known to the model: a seed names one of a few energy
\* tables, standing for the query-key dot products a set of weights yields.
WeightSeeds == {"zero", "future", "mixed"}

EnergyAt(w, b, h, q, k) ==
    CASE w = "zero"   -> 0
      [] w = "future" -> k - q
      [] OTHER        -> ((b + h + q * k) % 3) - 1

\* exp(-g) in thousandths for a gap g >= 0 of whole units; g at or past the
\* underflow point gives exactly 0, any smaller gap a positive value
ExpMilli(g) ==
    IF g >= ExpUnderflow THEN 0
    ELSE IF g < 7 THEN <<1000, 368, 135, 50, 18, 7, 2>>[g + 1]
    ELSE 1

\* torch.softmax(row / scale) over one row of energies: each probability is
\* num[k] / den.  A row whose maximum is -inf is NaN throughout.
SoftmaxRow(row, scale) ==
    LET m == SeqMax(row) IN
    IF m = NegInf
    THEN [nan |-> TRUE, num |-> [k \in 1..Len(row) |-> 0], den |-> 0]
    ELSE LET num == [k \in 1..Len(row) |->
                        IF row[k] = NegInf THEN 0 ELSE ExpMilli((m - row[k]) \div scale)]
         IN  [nan |-> FALSE, num |-> num, den |-> SeqSum(num)]

\* a faulty fill value
MaskFillNegInf == NegInf

\* the value masked_fill writes: float("-1e20")
MaskFillValue == MaskSentinel

\* a faulty fill, which hits the positions the mask keeps
MaskedFillRowInverted(w, mask, b, h, q, key_len) ==
    [k \in 1..key_len |->
        IF mask.dtype # "none" /\ MaskAt(mask, b, h, q, k) # 0
        THEN MaskFillValue
        ELSE EnergyAt(w, b, h, q, k)]

\* energy.masked_fill(mask == 0, float("-1e20")) on the row [b, h, q, :]
MaskedFillRow(w, mask, b, h, q, key_len) ==
    [k \in 1..key_len |->
        IF mask.dtype # "none" /\ MaskAt(mask, b, h, q, k) = 0
        THEN MaskFillValue
        ELSE EnergyAt(w, b, h, q, k)]

(***************************************************************************)
(* Forward passes of the modules                                           *)
(***************************************************************************)
\* torch.einsum("nqhd,nkhd->nhqk", [queries, keys])
EinsumQK(queries, keys) ==
    IF ~queries.ok THEN queries
    ELSE IF ~keys.ok THEN keys
    ELSE LET qs == queries.shape
             ks == keys.shape
         IN  IF Len(qs) # 4 \/ Len(ks) # 4 THEN Raise("RuntimeError")
             ELSE IF ~(DimsBroadcast(qs[1], ks[1]) /\ DimsBroadcast(qs[3], ks[3])
                       /\ DimsBroadcast(qs[4], ks[4]))
             THEN Raise("RuntimeError")
             ELSE Tensor(<<BroadcastDim(qs[1], ks[1]), BroadcastDim(qs[3], ks[3]), qs[2], ks[2]>>,
                         Tag("energy", 0), queries.noise \cup keys.noise)

\* energy.masked_fill(mask == 0, ...), by shape
MaskedFill(energy, mask) ==
    IF ~energy.ok \/ mask.dtype = "none" THEN energy
    ELSE IF ~MaskBroadcasts(mask.shape, energy.shape) THEN Raise("RuntimeError")
    ELSE energy

\* torch.einsum("nhql,nlhd->nqhd", [attention, values])
EinsumAV(attention, values) ==
    IF ~attention.ok THEN attention
    ELSE IF ~values.ok THEN values
    ELSE LET as == attention.shape
             vs == values.shape
         IN  IF Len(as) # 4 \/ Len(vs) # 4 THEN Raise("RuntimeError")
             ELSE IF ~(DimsBroadcast(as[1], vs[1]) /\ DimsBroadcast(as[2], vs[3])
                       /\ DimsBroadcast(as[4], vs[2]))
             THEN Raise("RuntimeError")
             ELSE Tensor(<<BroadcastDim(as[1], vs[1]), as[3], BroadcastDim(as[2], vs[3]), vs[4]>>,
                         Tag("weighted", 0), attention.noise \cup values.noise)

\* a faulty output length, taken from the keys
OutLenFromKeys(key_len, query_len) == key_len

\* the length the attention output is reshaped to: query_len
OutLen(key_len, query_len) == query_len

\* SelfAttention.forward(values, keys, query, mask) of a module built with
\* configuration c and weights w: the output tensor and the attention
\* probabilities att[b][h][q] (a row over the keys)
SelfAttention(c, w, values, keys, query, mask) ==
    IF ~values.ok \/ ~keys.ok \/ ~query.ok
    THEN [out |-> IF ~values.ok THEN values ELSE IF ~keys.ok THEN keys ELSE query,
          att |-> <<>>]
    ELSE
    LET N == query.shape[1]
        value_len == values.shape[2]
        key_len == keys.shape[2]
        query_len == query.shape[2]
        head_dim == c.embed_size \div c.heads
        values1 == Linear(values, c.embed_size, c.embed_size, Tag("values", 0))
        keys1 == Linear(keys, c.embed_size, c.embed_size, Tag("keys", 0))
        queries1 == Linear(query, c.embed_size, c.embed_size, Tag("queries", 0))
        values2 == Reshape(values1, <<N, value_len, c.heads, head_dim>>)
        keys2 == Reshape(keys1, <<N, key_len, c.heads, head_dim>>)
        queries2 == Reshape(queries1, <<N, query_len, c.heads, head_dim>>)
        \* torch.softmax keeps the shape of the energy
        energy == MaskedFill(EinsumQK(queries2, keys2), mask)
        weighted == EinsumAV(energy, values2)
        out1 == Reshape(weighted, <<N, OutLen(key_len, query_len), c.heads * head_dim>>)
        out == Linear(out1, c.embed_size, c.embed_size, Tag("attention", 0))
        scale == ISqrt(c.embed_size)
    IN  [out |-> out,
         att |-> IF ~out.ok THEN <<>>
                 ELSE [b \in 1..N |-> [h \in 1..c.heads |-> [q \in 1..query_len |->
                         SoftmaxRow(MaskedFillRow(w, mask, b, h, q, key_len), scale)]]]]

\* what a step records of one call of SelfAttention.forward
AttentionCall(site, layer, value, key, query, mask, a) ==
    [site |-> site, layer |-> layer,
     value |-> value.tag, key |-> key.tag, query |-> query.tag,
     value_len |-> value.shape[2], key_len |-> key.shape[2], query_len |-> query.shape[2],
     N |-> query.shape[1],
     mask |-> mask, out |-> a.out, att |-> a.att]

\* TransformerBlock.forward(value, key, query, mask).  nn.ReLU between the two linear layers of
\* feed_forward keeps the shape and adds no draw.
TransformerBlock(c, w, rng, site, layer, value, key, query, mask) ==
    LET a == SelfAttention(c, w, value, key, query, mask)
        x == Dropout(LayerNorm(Add(a.out, query, Tag("add1", layer)),
                               c.embed_size, Tag("norm1", layer)),
                     c.dropout, <<site, layer, "dropout1">>, rng)
        h1 == Linear(x, c.embed_size, c.forward_expansion * c.embed_size, Tag("ff0", layer))
        forward == Linear(h1, c.forward_expansion * c.embed_size, c.embed_size, Tag("ff2", layer))
        o == Dropout(LayerNorm(Add(forward, x, Tag("add2", layer)),
                               c.embed_size, Tag("norm2", layer)),
                     c.dropout, <<site, layer, "dropout2">>, rng)
        out == IF o.ok THEN Tensor(o.shape, Tag(site, layer), o.noise) ELSE o
    IN  [out |-> out,
         calls |-> << AttentionCall(site, layer, value, key, query, mask, a) >>]

\* a faulty block, whose second attention reads the hidden state instead of
\* the encoder's output
DecoderBlockNoMemory(c, w, rng, layer, x, value, key, src_mask, trg_mask) ==
    LET a == SelfAttention(c, w, x, x, x, trg_mask)
        query == Dropout(LayerNorm(Add(a.out, x, Tag("add", layer)),
                                   c.embed_size, Tag("query", layer)),
                         c.dropout, <<"decoder", layer, "dropout">>, rng)
        t == IF query.ok
             THEN TransformerBlock(c, w, rng, "decoder.cross", layer, x, x, query,
                                   src_mask)
             ELSE [out |-> query, calls |-> <<>>]
    IN  [out |-> t.out,
         calls |-> << AttentionCall("decoder.self", layer, x, x, x, trg_mask, a) >> \o t.calls]

\* DecoderBlock.forward(x, value, key, src_mask, trg_mask)
DecoderBlock(c, w, rng, layer, x, value, key, src_mask, trg_mask) ==
    LET a == SelfAttention(c, w, x, x, x, trg_mask)
        query == Dropout(LayerNorm(Add(a.out, x, Tag("add", layer)),
                                   c.embed_size, Tag("query", layer)),
                         c.dropout, <<"decoder", layer, "dropout">>, rng)
        t == IF query.ok
             THEN TransformerBlock(c, w, rng, "decoder.cross", layer, value, key, query,
                                   src_mask)
             ELSE [out |-> query, calls |-> <<>>]
    IN  [out |-> t.out,
         calls |-> << AttentionCall("decoder.self", layer, x, x, x, trg_mask, a) >> \o t.calls]

\* the embedding step of Encoder.forward and Decoder.forward:
\* dropout(word_embedding(x) + position_embedding(positions))
Embed(c, rng, mod, vocab_size, x) ==
    LET N == TokShape(x)[1]
        seq_length == TokShape(x)[2]
        positions == Positions(N, seq_length)
        word == Embedding(x, vocab_size, c.embed_size, Tag("word_embedding", 0))
        pos == Embedding(positions, c.max_length, c.embed_size, Tag("position_embedding", 0))
        sum == Add(word, pos, Tag(mod, 0))
    IN  Dropout(sum, c.dropout, <<mod, 0, "dropout">>, rng)

\* a faulty output layer, sized by the source vocabulary
FcOutSrcVocab(c, x) == Linear(x, c.embed_size, c.src_vocab_size, Tag("logits", 0))

\* Decoder.fc_out = nn.Linear(embed_size, trg_vocab_size), applied to x
FcOut(c, x) == Linear(x, c.embed_size, c.trg_vocab_size, Tag("logits", 0))

(***************************************************************************)
(* What a tensor reads: for a tensor of shape (batch, length, ...), the    *)
(* input tokens its vector at [b, p] is a function of, as a set of         *)
(* <<side, b, p, token>> with side "src" or "trg" (b and p count from 1).  *)
(* Two vectors the same operations produce at the same place from the      *)
(* same tokens are equal.  others[u] is what x of Decoder.forward reads    *)
(* when the same model is run on the same source and the target batch u    *)
(* instead of trg: a second execution of the decoder, taken step by step   *)
(* with the first.                                                         *)
(***************************************************************************)
NoReads == [enc |-> <<>>, x |-> <<>>, out |-> <<>>, others |-> <<>>]

\* word_embedding(x) + position_embedding(positions): the vector at [b, p]
\* is the row of the token x[b][p] plus the row of the position p
EmbedReads(side, x) ==
    [b \in 1..Len(x) |-> [p \in 1..Len(x[b]) |-> {<<side, b, p, x[b][p]>>}]]

\* a + b, vector by vector
JoinReads(a, b) == [i \in 1..Len(a) |-> [p \in 1..Len(a[i]) |-> a[i][p] \cup b[i][p]]]

\* the keys that reach the output of SelfAttention.forward at [b, q]: those
\* the mask keeps in some head (their energy is the query-key product), and
\* every key of a row the mask keeps no key of (every energy is then the
\* fill value, and softmax gives every key the same nonzero probability)
KeptKeys(c, mask, b, q, key_len) ==
    { k \in 1..key_len : \E h \in 1..c.heads :
        \/ mask.dtype = "none"
        \/ MaskAt(mask, b, h, q, k) # 0
        \/ \A j \in 1..key_len : MaskAt(mask, b, h, q, j) = 0 }

\* SelfAttention.forward: the linear layers act on every vector by itself;
\* the energy at [b, h, q, k] is a function of the query at q and the key at
\* k, the output at [b, q] the sum over k of attention times value, then
\* fc_out on every vector by itself
SelfAttentionReads(c, values, keys, query, mask) ==
    [b \in 1..Len(query) |-> [q \in 1..Len(query[b]) |->
        query[b][q] \cup
        UNION { keys[b][k] \cup values[b][k] :
                    k \in KeptKeys(c, mask, b, q, Len(keys[b])) }]]

\* TransformerBlock.forward: norm1(attention + query), feed_forward and
\* norm2(forward + x) act on every vector by itself
TransformerBlockReads(c, value, key, query, mask) ==
    LET attention == SelfAttentionReads(c, value, key, query, mask)
    IN  JoinReads(attention, query)

\* DecoderBlock.forward
DecoderBlockReads(c, x, value, key, src_mask, trg_mask) ==
    LET attention == SelfAttentionReads(c, x, x, x, trg_mask)
        query == JoinReads(attention, x)
    IN  TransformerBlockReads(c, value, key, query, src_mask)

(***************************************************************************)
(* Configurations and inputs                                               *)
(***************************************************************************)
\* the arguments of Transformer.__init__ (device apart); dropout is held in
\* percent
Config(src_vocab_size, trg_vocab_size, src_pad_idx, trg_pad_idx, embed_size, num_layers, forward_expansion, heads, dropout, max_length) ==
    [src_vocab_size |-> src_vocab_size, trg_vocab_size |-> trg_vocab_size,
     src_pad_idx |-> src_pad_idx, trg_pad_idx |-> trg_pad_idx,
     embed_size |-> embed_size, num_layers |-> num_layers,
     forward_expansion |-> forward_expansion, heads |-> heads,
     dropout |-> dropout, max_length |-> max_length]

\* Transformer(src_vocab_size, trg_vocab_size, src_pad_idx, trg_pad_idx) with
\* the defaults of the signature
DefaultConfig(src_vocab_size, trg_vocab_size, src_pad_idx, trg_pad_idx) ==
    Config(src_vocab_size, trg_vocab_size, src_pad_idx, trg_pad_idx,
           DefaultEmbedSize, DefaultNumLayers, DefaultForwardExpansion,
           DefaultHeads, DefaultDropout, DefaultMaxLength)

\* the model of the notebook's __main__ cell
SmokeConfig == DefaultConfig(10, 10, 0, 0)

\* x and trg of the __main__ cell
SmokeSrc == << <<1, 5, 6, 4, 3, 9, 5, 2, 0>>, <<1, 8, 7, 3, 4, 5, 6, 7, 2>> >>

SmokeTrgFull == << <<1, 7, 4, 3, 5, 9, 2, 0>>, <<1, 5, 6, 2, 4, 7, 6, 2>> >>

\* trg[:, :-1]
DropLastColumn(t) == [b \in 1..Len(t) |-> SubSeq(t[b], 1, Len(t[b]) - 1)]

SmokeTrg == DropLastColumn(SmokeTrgFull)

\* small configurations: vocabularies of 2 and 3 tokens, padding ids other
\* than 0, one and two layers, maximum lengths of 1, 2 and MaxLen, dropout on
SmallConfigs ==
    { Config(3, 3, 0, 0, 4, 1, 2, 2, 0, MaxLen),
      Config(2, 3, 1, 0, 4, 2, 1, 2, 0, 1),
      Config(3, 2, 1, 1, 6, 1, 1, 3, 0, 2),
      Config(2, 2, 0, 0, 4, 1, 1, 2, 10, 1) }

\* configurations whose embed_size is no multiple of heads
IndivisibleConfigs ==
    { [SmokeConfig EXCEPT !.embed_size = 10, !.heads = 3],
      Config(3, 3, 0, 0, 10, 0, 4, 3, 0, 2),
      Config(3, 3, 0, 0, 4, 1, 1, 3, 0, 2),
      Config(3, 3, 0, 0, 4, 2, 1, 3, 0, 2) }

Configs == {SmokeConfig} \cup SmallConfigs \cup IndivisibleConfigs

\* batches of one sequence of up to MaxLen tokens, and batches of two
\* shorter sequences of equal length
Batches ==
    { <<s>> : s \in SeqsUpTo(TokIds, MaxLen) }
    \cup { <<s, t>> : s \in SeqsUpTo({0, 1}, MaxLen - 1), t \in SeqsUpTo({0, 1}, MaxLen - 1) }

\* the (src, trg) pairs a model of configuration c is called with
Inputs(c) ==
    IF c = SmokeConfig THEN { <<SmokeSrc, SmokeTrg>> }
    ELSE { <<s, t>> \in Batches \X Batches :
             /\ Len(s) = Len(t)
             /\ \A b \in 1..Len(s) : Len(s[b]) = Len(s[1])
             /\ \A b \in 1..Len(t) : Len(t[b]) = Len(t[1]) }

\* the target batches that differ from t in at most one token and that
\* Decoder.forward accepts
Variants(c, t) ==
    { u \in { [t EXCEPT ![b][p] = tok] : b \in 1..Len(t), p \in 1..Len(t[1]), tok \in TokIds } :
        Embedding(u, c.trg_vocab_size, c.embed_size, NoTag).ok }

(***************************************************************************)
(* State                                                                   *)
(***************************************************************************)
VARIABLES
    cfg,       \* the arguments Transformer(...) is constructed with
    pc,        \* where the program is
    built,     \* the parameters created so far by Transformer.__init__
    weights,   \* the values of the parameters (a seed of WeightSeeds)
    rng,       \* the state of torch's global random generator
    src, trg,  \* the arguments of Transformer.forward
    src_mask, trg_mask,
    enc_out,   \* out of Encoder.forward, then enc_src / enc_out
    x,         \* x of Decoder.forward
    out,       \* what Transformer.forward returned or raised
    layer,     \* the index (from 1) of the next layer of the running loop
    calls,     \* the SelfAttention.forward calls of the last step
    steps,     \* the steps of the running execution, in order
    run,       \* which execution of forward this is (0: none yet)
    prev,      \* what the previous execution returned
    errAt,     \* the module whose forward raised
    reads      \* the input tokens enc_out, x and out are functions of

vars == <<cfg, pc, built, weights, rng, src, trg, src_mask, trg_mask, enc_out,
          x, out, layer, calls, steps, run, prev, errAt, reads>>

RngStates == {0, 1}

Init ==
    /\ cfg \in Configs
    /\ pc = "new"
    /\ built = <<>>
    /\ weights = "none"
    /\ rng = 0
    /\ src = <<>>
    /\ trg = <<>>
    /\ src_mask = NoMask
    /\ trg_mask = NoMask
    /\ enc_out = NoTensor
    /\ x = NoTensor
    /\ out = NoTensor
    /\ layer = 0
    /\ calls = <<>>
    /\ steps = <<>>
    /\ run = 0
    /\ prev = NoTensor
    /\ errAt = "none"
    /\ reads = NoReads

\* model = Transformer(...): every parameter is created with random values;
\* a failed assertion leaves no model
Construct ==
    /\ pc = "new"
    /\ LET r == TransformerInit(cfg) IN
        /\ built' = r.made
        /\ pc' = IF r.ok THEN "ready" ELSE "failed"
        /\ weights' \in IF r.ok THEN WeightSeeds ELSE {"none"}
    /\ UNCHANGED <<cfg, rng, src, trg, src_mask, trg_mask, enc_out, x, out, layer,
                   calls, steps, run, prev, errAt, reads>>

\* out = model(src, trg): the call
Call ==
    /\ pc = "ready"
    /\ run = 0
    /\ \E io \in Inputs(cfg) :
        /\ src' = io[1]
        /\ trg' = io[2]
    /\ pc' = "forward"
    /\ run' = 1
    /\ UNCHANGED <<cfg, built, weights, rng, src_mask, trg_mask, enc_out, x, out,
                   layer, calls, steps, prev, errAt, reads>>

\* Transformer.forward: make_src_mask(src) and make_trg_mask(trg)
MakeMasks ==
    /\ pc = "forward"
    /\ src_mask' = MakeSrcMask(cfg, src)
    /\ trg_mask' = MakeTrgMask(cfg, trg)
    /\ pc' = "encoder"
    /\ steps' = Append(steps, "masks")
    /\ UNCHANGED <<cfg, built, weights, rng, src, trg, enc_out, x, out, layer,
                   calls, run, prev, errAt, reads>>

\* Encoder.forward up to the loop: the embeddings and the dropout
EncoderEmbed ==
    /\ pc = "encoder"
    /\ steps' = Append(steps, "encoder.embed")
    /\ LET e == Embed(cfg, rng, "encoder", cfg.src_vocab_size, src) IN
        IF e.ok
        THEN /\ enc_out' = e
             /\ reads' = [reads EXCEPT !.enc = EmbedReads("src", src)]
             /\ layer' = 1
             /\ pc' = IF cfg.num_layers = 0 THEN "decoder" ELSE "encoder.layers"
             /\ UNCHANGED <<out, errAt>>
        ELSE /\ out' = e
             /\ errAt' = "encoder"
             /\ pc' = "error"
             /\ UNCHANGED <<enc_out, layer, reads>>
    /\ UNCHANGED <<cfg, built, weights, rng, src, trg, src_mask, trg_mask, x,
                   calls, run, prev>>

\* a faulty loop, which returns after its first block
EncoderLayerOnce ==
    /\ pc = "encoder.layers"
    /\ steps' = Append(steps, "encoder.layer")
    /\ LET r == TransformerBlock(cfg, weights, rng, "encoder", layer,
                                 enc_out, enc_out, enc_out, src_mask) IN
        /\ calls' = r.calls
        /\ enc_out' = r.out
        /\ reads' = [reads EXCEPT !.enc = TransformerBlockReads(cfg,
                                   reads.enc, reads.enc, reads.enc, src_mask)]
        /\ layer' = layer + 1
        /\ pc' = "decoder"
        /\ UNCHANGED <<out, errAt>>
    /\ UNCHANGED <<cfg, built, weights, rng, src, trg, src_mask, trg_mask, x,
                   run, prev>>

\* one turn of the loop of Encoder.forward: out = layer(out, out, out, mask)
EncoderLayer ==
    /\ pc = "encoder.layers"
    /\ steps' = Append(steps, "encoder.layer")
    /\ LET r == TransformerBlock(cfg, weights, rng, "encoder", layer,
                                 enc_out, enc_out, enc_out, src_mask) IN
        /\ calls' = r.calls
        /\ IF r.out.ok
           THEN /\ enc_out' = r.out
                /\ reads' = [reads EXCEPT !.enc = TransformerBlockReads(cfg,
                                           reads.enc, reads.enc, reads.enc, src_mask)]
                /\ layer' = layer + 1
                /\ pc' = IF layer = cfg.num_layers THEN "decoder" ELSE "encoder.layers"
                /\ UNCHANGED <<out, errAt>>
           ELSE /\ out' = r.out
                /\ errAt' = "encoder"
                /\ pc' = "error"
                /\ UNCHANGED <<enc_out, layer, reads>>
    /\ UNCHANGED <<cfg, built, weights, rng, src, trg, src_mask, trg_mask, x,
                   run, prev>>

\* Decoder.forward up to the loop: the embeddings and the dropout
DecoderEmbed ==
    /\ pc = "decoder"
    /\ steps' = Append(steps, "decoder.embed")
    /\ calls' = <<>>
    /\ LET e == Embed(cfg, rng, "decoder", cfg.trg_vocab_size, trg) IN
        IF e.ok
        THEN /\ x' = e
             /\ reads' = [reads EXCEPT
                            !.x = EmbedReads("trg", trg),
                            !.others = [u \in Variants(cfg, trg) |-> EmbedReads("trg", u)]]
             /\ layer' = 1
             /\ pc' = IF cfg.num_layers = 0 THEN "decoder.fc_out" ELSE "decoder.layers"
             /\ UNCHANGED <<out, errAt>>
        ELSE /\ out' = e
             /\ errAt' = "decoder"
             /\ pc' = "error"
             /\ UNCHANGED <<x, layer, reads>>
    /\ UNCHANGED <<cfg, built, weights, rng, src, trg, src_mask, trg_mask,
                   enc_out, run, prev>>

\* one turn of the loop of Decoder.forward:
\* x = layer(x, enc_out, enc_out, src_mask, trg_mask)
DecoderLayer ==
    /\ pc = "decoder.layers"
    /\ steps' = Append(steps, "decoder.layer")
    /\ LET r == DecoderBlock(cfg, weights, rng, layer, x, enc_out, enc_out,
                             src_mask, trg_mask) IN
        /\ calls' = r.calls
        /\ IF r.out.ok
           THEN /\ x' = r.out
                /\ reads' = [reads EXCEPT
                               !.x = DecoderBlockReads(cfg, reads.x, reads.enc,
                                                       reads.enc, src_mask, trg_mask),
                               !.others = [u \in DOMAIN reads.others |->
                                   DecoderBlockReads(cfg, reads.others[u], reads.enc,
                                                     reads.enc, src_mask, MakeTrgMask(cfg, u))]]
                /\ layer' = layer + 1
                /\ pc' = IF layer = cfg.num_layers THEN "decoder.fc_out" ELSE "decoder.layers"
                /\ UNCHANGED <<out, errAt>>
           ELSE /\ out' = r.out
                /\ errAt' = "decoder"
                /\ pc' = "error"
                /\ UNCHANGED <<x, layer, reads>>
    /\ UNCHANGED <<cfg, built, weights, rng, src, trg, src_mask, trg_mask,
                   enc_out, run, prev>>

\* the end of Decoder.forward and of Transformer.forward: out = fc_out(x)
DecoderFcOut ==
    /\ pc = "decoder.fc_out"
    /\ steps' = Append(steps, "decoder.fc_out")
    /\ calls' = <<>>
    /\ LET o == FcOut(cfg, x) IN
        /\ out' = o
        /\ pc' = IF o.ok THEN "done" ELSE "error"
        /\ errAt' = IF o.ok THEN errAt ELSE "decoder"
        /\ reads' = [reads EXCEPT !.out = IF o.ok THEN reads.x ELSE <<>>]
    /\ UNCHANGED <<cfg, built, weights, rng, src, trg, src_mask, trg_mask,
                   enc_out, x, layer, run, prev>>

\* a second execution of model(src, trg) on the same inputs; the global
\* generator may have moved on in between
Again ==
    /\ pc = "done"
    /\ run = 1
    /\ prev' = out
    /\ run' = 2
    /\ rng' \in RngStates
    /\ pc' = "forward"
    /\ src_mask' = NoMask
    /\ trg_mask' = NoMask
    /\ enc_out' = NoTensor
    /\ x' = NoTensor
    /\ out' = NoTensor
    /\ layer' = 0
    /\ calls' = <<>>
    /\ steps' = <<>>
    /\ reads' = NoReads
    /\ UNCHANGED <<cfg, built, weights, src, trg, errAt>>

Next ==
    \/ Construct
    \/ Call
    \/ MakeMasks
    \/ EncoderEmbed
    \/ EncoderLayer
    \/ DecoderEmbed
    \/ DecoderLayer
    \/ DecoderFcOut
    \/ Again

Spec == Init /\ [][Next]_vars

(***************************************************************************)
(* Vocabulary of the properties                                            *)
(***************************************************************************)
Started == run >= 1

MasksMade == Started /\ pc \notin {"forward"}

Returned == pc = "done"

Raised == pc = "error"

SrcLen == Len(src[1])

TrgLen == Len(trg[1])

BatchSize == Len(trg)

SrcInRange ==
    /\ SrcLen <= cfg.max_length
    /\ \A b \in 1..Len(src) : \A k \in 1..SrcLen :
          src[b][k] >= 0 /\ src[b][k] < cfg.src_vocab_size

TrgInRange ==
    /\ TrgLen <= cfg.max_length
    /\ \A b \in 1..Len(trg) : \A k \in 1..TrgLen :
          trg[b][k] >= 0 /\ trg[b][k] < cfg.trg_vocab_size

Indivisible == cfg.embed_size % cfg.heads # 0

CallIdx == 1..Len(calls)

\* the rows [b, h, q] of the attention of call i
Rows(i) == { <<b, h, q>> : b \in 1..calls[i].N, h \in 1..cfg.heads,
                           q \in 1..calls[i].query_len }

Keys(i) == 1..calls[i].key_len

Masked(i, r, k) == MaskAt(calls[i].mask, r[1], r[2], r[3], k) = 0

Row(i, r) == calls[i].att[r[1]][r[2]][r[3]]

FullyMasked(i, r) == \A k \in Keys(i) : Masked(i, r, k)

\* n times the step s
Repeat(s, n) == [i \in 1..n |-> s]

\* Encoder.forward is in its loop, about to run block `layer`
InEncoderLoop == pc = "encoder.layers"

\* Encoder.forward has returned in the running execution
EncoderReturned ==
    \/ pc \in {"decoder", "decoder.layers", "decoder.fc_out", "done"}
    \/ pc = "error" /\ errAt = "decoder"

\* the steps of Encoder.forward when n blocks have run
EncoderSteps(n) == <<"masks", "encoder.embed">> \o Repeat("encoder.layer", n)

\* the operation whose result is x of Decoder.forward when k layers have run
HiddenTag(k) == IF k = 0 THEN Tag("decoder", 0) ELSE Tag("decoder.cross", k)

\* the steps of Transformer.forward when n decoder layers have run
DecoderSteps(n) ==
    EncoderSteps(cfg.num_layers) \o <<"decoder.embed">> \o Repeat("decoder.layer", n)

\* the last step was a turn of the decoder's loop
DecoderLayerRan == \E i \in CallIdx : calls[i].site \in {"decoder.self", "decoder.cross"}

\* t and u hold the same tokens at the first i positions of element b
AgreeUpTo(t, u, b, i) == \A p \in 1..i : t[b][p] = u[b][p]

\* the target tokens among a set of reads
TrgReads(r) == { e \in r : e[1] = "trg" }

(***************************************************************************)
(* C1: for a source and a target batch of the same batch size whose        *)
(* lengths are between 1 and max_length and whose token ids lie in their   *)
(* vocabularies, Transformer.forward returns (never raises) logits of      *)
(* shape (batch, trg_len, trg_vocab_size), whatever src_len and embed_size *)
(* are; the smoke test returns shape (2, 7, 10).                           *)
(***************************************************************************)
C1_LogitsShape ==
    /\ (Started /\ SrcInRange /\ TrgInRange) =>
          /\ ~Raised
          /\ Returned => /\ out.ok
                         /\ out.shape = <<BatchSize, TrgLen, cfg.trg_vocab_size>>
    /\ (Returned /\ cfg = SmokeConfig /\ src = SmokeSrc /\ trg = SmokeTrg) =>
          out.shape = <<2, 7, 10>>

C1_Witness ==
    /\ Returned
    /\ cfg = SmokeConfig /\ src = SmokeSrc /\ trg = DropLastColumn(SmokeTrgFull)
    /\ SrcLen = 9 /\ Len(SmokeTrgFull[1]) = 8
    /\ out.shape = <<2, 7, 10>>

(***************************************************************************)
(* C2 as claimed: whenever embed_size is no multiple of heads, constructing *)
(* the model fails, whatever the number of layers, and the check runs      *)
(* before any weight tensor is created.                                    *)
(***************************************************************************)
C2_AlwaysFailsFirst ==
    (Indivisible /\ pc # "new") => (pc = "failed" /\ built = <<>>)

(***************************************************************************)
(* C2 as amended: when embed_size is no multiple of heads and num_layers   *)
(* is at least 1, construction fails in the SelfAttention constructor of   *)
(* the first encoder block: no model results and forward never runs, and   *)
(* the only parameters created before the check are the encoder's word     *)
(* and position embedding tables.  With num_layers = 0 no SelfAttention    *)
(* is constructed and construction succeeds.                               *)
(***************************************************************************)
C2_FailsInFirstBlock ==
    (Indivisible /\ pc # "new") =>
        IF cfg.num_layers >= 1
        THEN /\ pc = "failed"
             /\ weights = "none"
             /\ ~Started
             /\ built = << Param("encoder", 0, "word_embedding"),
                           Param("encoder", 0, "position_embedding") >>
        ELSE pc # "failed"

C2_Witness ==
    /\ pc = "failed"
    /\ cfg.embed_size = 10 /\ cfg.heads = 3 /\ cfg.num_layers = DefaultNumLayers
    /\ Len(built) = 2

(***************************************************************************)
(* C3 as claimed: in every attention call, every key position at which the *)
(* mask is zero gets probability 0, whatever the rest of the mask row is.  *)
(***************************************************************************)
C3_MaskedIsZero ==
    \A i \in CallIdx : \A r \in Rows(i) : \A k \in Keys(i) :
        Masked(i, r, k) => (~Row(i, r).nan /\ Row(i, r).num[k] = 0)

(***************************************************************************)
(* C3 as amended: in every attention call, a key position at which the     *)
(* mask is zero gets probability 0 in every row whose mask keeps at least  *)
(* one key; in a row whose mask is zero throughout, every key gets the     *)
(* same probability 1/key_len.                                             *)
(***************************************************************************)
C3_MaskedIsZeroUnlessAll ==
    \A i \in CallIdx : \A r \in Rows(i) :
        /\ ~Row(i, r).nan
        /\ ~FullyMasked(i, r) =>
              \A k \in Keys(i) : Masked(i, r, k) => Row(i, r).num[k] = 0
        /\ FullyMasked(i, r) =>
              \A k \in Keys(i) :
                  Row(i, r).num[k] * calls[i].key_len = Row(i, r).den

\* a masked key whose energy would have been the row's largest
C3_Witness ==
    \E i \in CallIdx : \E r \in Rows(i) : \E k, k2 \in Keys(i) :
        /\ Masked(i, r, k) /\ ~Masked(i, r, k2)
        /\ EnergyAt(weights, r[1], r[2], r[3], k) > EnergyAt(weights, r[1], r[2], r[3], k2)
        /\ Row(i, r).num[k] = 0
        /\ Row(i, r).num[k2] > 0

(***************************************************************************)
(* C4: make_trg_mask returns a mask of shape (batch, 1, trg_len, trg_len)  *)
(* whose entry [b, 0, i, j] is nonzero exactly when j <= i; every decoder  *)
(* self-attention is called with it, gives probability 0 to every key      *)
(* j > i of every query i, and keeps the key j = i of every query.         *)
(***************************************************************************)
C4_CausalMask ==
    /\ MasksMade =>
          /\ trg_mask.shape = <<BatchSize, 1, TrgLen, TrgLen>>
          /\ \A b \in 1..BatchSize : \A i, j \in 1..TrgLen :
                (trg_mask.val[b][1][i][j] # 0) <=> (j <= i)
    /\ \A i \in CallIdx : calls[i].site = "decoder.self" =>
          /\ calls[i].mask = trg_mask
          /\ \A r \in Rows(i) :
                /\ ~Masked(i, r, r[3])
                /\ ~Row(i, r).nan
                /\ \A k \in Keys(i) : k > r[3] => Row(i, r).num[k] = 0

\* a decoder self-attention whose energies favour the future keys
C4_Witness ==
    \E i \in CallIdx :
        /\ calls[i].site = "decoder.self"
        /\ calls[i].query_len >= 2
        /\ weights = "future"
        /\ Row(i, <<1, 1, 1>>).num[2] = 0
        /\ Row(i, <<1, 1, 1>>).num[1] > 0

(***************************************************************************)
(* C5: in every attention call, under every mask, a row that is masked     *)
(* throughout included, each row of the attention probabilities is a       *)
(* distribution over the keys: no NaN, no negative entry, a positive       *)
(* finite normaliser, and the entries sum to 1.                            *)
(***************************************************************************)
C5_RowsAreDistributions ==
    \A i \in CallIdx : \A r \in Rows(i) :
        /\ ~Row(i, r).nan
        /\ \A k \in Keys(i) : Row(i, r).num[k] >= 0
        /\ Row(i, r).den > 0
        /\ SeqSum(Row(i, r).num) = Row(i, r).den
        /\ \E k \in Keys(i) : Row(i, r).num[k] > 0

\* a source of padding tokens only: an encoder row masked throughout
C5_Witness ==
    \E i \in CallIdx :
        /\ calls[i].site = "encoder"
        /\ \A b \in 1..Len(src) : \A k \in 1..SrcLen : src[b][k] = cfg.src_pad_idx
        /\ SrcLen >= 2
        /\ \A r \in Rows(i) : FullyMasked(i, r) /\ Row(i, r).den > 0

(***************************************************************************)
(* C6: make_src_mask returns a mask of shape (batch, 1, 1, src_len) whose  *)
(* entry [b, 0, 0, k] is true exactly when src[b][k] != src_pad_idx; the   *)
(* encoder self-attention and the decoder cross-attention of every layer   *)
(* are called with that mask, so that a padding key of the source is       *)
(* masked for every query position and every head.                         *)
(***************************************************************************)
C6_SrcMask ==
    /\ MasksMade =>
          /\ src_mask.shape = <<Len(src), 1, 1, SrcLen>>
          /\ \A b \in 1..Len(src) : \A k \in 1..SrcLen :
                (src_mask.val[b][1][1][k] # 0) <=> (src[b][k] # cfg.src_pad_idx)
    /\ \A i \in CallIdx : calls[i].site \in {"encoder", "decoder.cross"} =>
          /\ calls[i].mask = src_mask
          /\ calls[i].key_len = SrcLen
          /\ \A r \in Rows(i) : \A k \in Keys(i) :
                Masked(i, r, k) <=> (src[r[1]][k] = cfg.src_pad_idx)

\* a cross-attention over a source that holds the padding id 1 and a token 0
C6_Witness ==
    \E i \in CallIdx : \E k, k2 \in Keys(i) :
        /\ calls[i].site = "decoder.cross"
        /\ cfg.src_pad_idx = 1
        /\ src[1][k] = 1 /\ src[1][k2] = 0
        /\ \A r \in Rows(i) : Masked(i, r, k) /\ ~Masked(i, r, k2)

(***************************************************************************)
(* C7: the target mask does not depend on the token ids of the target nor  *)
(* on trg_pad_idx: when make_trg_mask has returned, its mask is the one    *)
(* every target batch of the same shape and every padding id give, and in  *)
(* the decoder self-attention a key holding the padding id keeps a         *)
(* positive probability for every query at or after it.                    *)
(***************************************************************************)
C7_TrgMaskIgnoresPadding ==
    /\ pc = "encoder" =>
          /\ \A t \in Batches :
                (Len(t) = BatchSize /\ \A b \in 1..Len(t) : Len(t[b]) = TrgLen)
                    => MakeTrgMask(cfg, t) = trg_mask
          /\ \A p \in TokIds : MakeTrgMask([cfg EXCEPT !.trg_pad_idx = p], trg) = trg_mask
    /\ \A i \in CallIdx : calls[i].site = "decoder.self" =>
          \A r \in Rows(i) : \A k \in Keys(i) :
              (k <= r[3] /\ trg[r[1]][k] = cfg.trg_pad_idx) =>
                  (~Masked(i, r, k) /\ Row(i, r).num[k] > 0)

\* a padding token in front of the query
C7_Witness ==
    \E i \in CallIdx : \E r \in Rows(i) : \E k \in Keys(i) :
        /\ calls[i].site = "decoder.self"
        /\ k < r[3]
        /\ trg[r[1]][k] = cfg.trg_pad_idx
        /\ trg[r[1]][r[3]] # cfg.trg_pad_idx
        /\ Row(i, r).num[k] > 0

(***************************************************************************)
(* C8: when the source or the target is longer than max_length or holds a  *)
(* token id outside its vocabulary, forward raises the embedding lookup's  *)
(* error and returns no logits; nothing is truncated and nothing recovers. *)
(* A bad source raises in the encoder's embedding step, before any layer   *)
(* and before any decoder step; a bad target (with a good source) raises   *)
(* in the decoder's embedding step, before any decoder layer.              *)
(***************************************************************************)
C8_OutOfRangeRaises ==
    /\ (Started /\ ~SrcInRange) =>
          /\ pc \in {"forward", "encoder", "error"}
          /\ x = NoTensor
          /\ Raised => /\ ~out.ok /\ out.err = "IndexError"
                       /\ errAt = "encoder"
                       /\ steps = <<"masks", "encoder.embed">>
    /\ (Started /\ SrcInRange /\ ~TrgInRange) =>
          /\ pc \notin {"decoder.layers", "decoder.fc_out", "done"}
          /\ x = NoTensor
          /\ Raised => /\ ~out.ok /\ out.err = "IndexError"
                       /\ errAt = "decoder"
                       /\ steps[Len(steps)] = "decoder.embed"
    /\ (Started /\ ~(SrcInRange /\ TrgInRange)) => (~Returned /\ out.shape = <<>>)

\* a target longer than max_length after a good source
C8_Witness ==
    /\ Raised
    /\ SrcInRange
    /\ TrgLen > cfg.max_length
    /\ \A b \in 1..Len(trg) : \A k \in 1..TrgLen : trg[b][k] < cfg.trg_vocab_size
    /\ errAt = "decoder"
    /\ enc_out.ok

(***************************************************************************)
(* C9: every call of SelfAttention.forward with value_len = key_len        *)
(* returns a tensor of shape (batch, query_len, embed_size), also when     *)
(* query_len differs from key_len as in the decoder's cross-attention.     *)
(***************************************************************************)
C9_AttentionShape ==
    \A i \in CallIdx : calls[i].value_len = calls[i].key_len =>
        /\ calls[i].out.ok
        /\ calls[i].out.shape = <<calls[i].N, calls[i].query_len, cfg.embed_size>>

C9_Witness ==
    \E i \in CallIdx :
        /\ calls[i].site = "decoder.cross"
        /\ calls[i].query_len = TrgLen /\ calls[i].key_len = SrcLen
        /\ calls[i].query_len # calls[i].key_len
        /\ calls[i].out.shape = <<BatchSize, TrgLen, cfg.embed_size>>

(***************************************************************************)
(* C10: with dropout 0, a second execution of forward on the same inputs   *)
(* and weights returns the same logits as the first, whatever the state of *)
(* the random generator; no step of forward changes the weights, the       *)
(* configuration or the inputs.                                            *)
(***************************************************************************)
C10_SameLogits ==
    /\ [](( Returned /\ run = 2 /\ cfg.dropout = 0) => out = prev)
    /\ [][Started => (weights' = weights /\ cfg' = cfg /\ built' = built
                      /\ src' = src /\ trg' = trg)]_vars

\* the second execution ran with the generator in another state
C10_Witness ==
    /\ Returned /\ run = 2 /\ cfg.dropout = 0
    /\ rng # 0
    /\ cfg.num_layers >= 1
    /\ out.ok /\ out = prev

(***************************************************************************)
(* C11: Encoder.forward runs its N blocks in list order, none skipped and  *)
(* none repeated: block 1 receives the dropout of word embedding +         *)
(* position embedding (positions 0..src_len-1), block k the output of      *)
(* block k-1, each as value, key and query alike and each with the source  *)
(* mask make_src_mask returned; what Encoder.forward returns is the output *)
(* of block N, of shape (batch, src_len, embed_size), and with N = 0 the   *)
(* embedded input.                                                         *)
(***************************************************************************)
C11_EncoderInOrder ==
    /\ InEncoderLoop =>
          /\ layer \in 1..cfg.num_layers
          /\ steps = EncoderSteps(layer - 1)
          /\ enc_out.ok /\ enc_out.tag = Tag("encoder", layer - 1)
          /\ layer = 1 =>
                /\ enc_out = Embed(cfg, rng, "encoder", cfg.src_vocab_size, src)
                /\ \A b \in 1..Len(src) : \A p \in 1..SrcLen :
                      Positions(Len(src), SrcLen)[b][p] = p - 1
    /\ \A i \in CallIdx : calls[i].site = "encoder" =>
          /\ Len(calls) = 1
          /\ calls[i].layer = layer - 1
          /\ Len(steps) >= calls[i].layer + 2
          /\ SubSeq(steps, 1, calls[i].layer + 2) = EncoderSteps(calls[i].layer)
          /\ calls[i].value = Tag("encoder", calls[i].layer - 1)
          /\ calls[i].key = calls[i].value
          /\ calls[i].query = calls[i].value
          /\ calls[i].mask = src_mask /\ src_mask = MakeSrcMask(cfg, src)
          /\ ~Raised
          /\ enc_out.tag = Tag("encoder", calls[i].layer)
    /\ (Started /\ EncoderReturned) =>
          /\ Len(steps) >= cfg.num_layers + 2
          /\ SubSeq(steps, 1, cfg.num_layers + 2) = EncoderSteps(cfg.num_layers)
          /\ Len(steps) > cfg.num_layers + 2 => steps[cfg.num_layers + 3] = "decoder.embed"
          /\ enc_out.ok /\ enc_out.tag = Tag("encoder", cfg.num_layers)
          /\ enc_out.shape = <<Len(src), SrcLen, cfg.embed_size>>
          /\ cfg.num_layers = 0 =>
                enc_out = Embed(cfg, rng, "encoder", cfg.src_vocab_size, src)

\* the encoder of the __main__ cell has returned: its sixth block received
\* the output of the fifth
C11_Witness ==
    /\ pc = "decoder"
    /\ cfg = SmokeConfig
    /\ Len(calls) = 1 /\ calls[1].site = "encoder"
    /\ calls[1].layer = DefaultNumLayers
    /\ calls[1].value = Tag("encoder", DefaultNumLayers - 1)
    /\ enc_out.tag = Tag("encoder", DefaultNumLayers)
    /\ enc_out.shape = <<2, 9, DefaultEmbedSize>>

(***************************************************************************)
(* C12: every decoder layer first runs the self-attention over the hidden  *)
(* state (value = key = query = x) with the target mask, then the add,     *)
(* normalization and dropout that give the query, then a TransformerBlock  *)
(* with value = key = the encoder's output, that query and the source      *)
(* mask.  The encoder's output is the same tensor in every layer and no    *)
(* decoder step assigns it; layer k+1 receives the hidden state layer k    *)
(* returned; the logits are fc_out applied to the hidden state of the last *)
(* layer, the last step of forward, with no softmax or activation after.   *)
(***************************************************************************)
C12_DecoderLayerOrder ==
    /\ [](DecoderLayerRan =>
            /\ Len(calls) = 2
            /\ ~Raised
            /\ layer - 1 \in 1..cfg.num_layers
            /\ steps = DecoderSteps(layer - 1)
            /\ calls[1].site = "decoder.self" /\ calls[1].layer = layer - 1
            /\ calls[1].value = HiddenTag(layer - 2)
            /\ calls[1].key = calls[1].value /\ calls[1].query = calls[1].value
            /\ calls[1].mask = trg_mask /\ trg_mask = MakeTrgMask(cfg, trg)
            /\ calls[2].site = "decoder.cross" /\ calls[2].layer = layer - 1
            /\ calls[2].value = enc_out.tag /\ calls[2].key = enc_out.tag
            /\ enc_out.tag = Tag("encoder", cfg.num_layers)
            /\ calls[2].value_len = SrcLen /\ calls[2].key_len = SrcLen
            /\ calls[2].query = Tag("query", layer - 1)
            /\ calls[2].query_len = TrgLen
            /\ calls[2].mask = src_mask /\ src_mask = MakeSrcMask(cfg, src)
            /\ x.tag = HiddenTag(layer - 1))
    /\ [](pc = "decoder.layers" =>
            /\ layer \in 1..cfg.num_layers
            /\ x.ok /\ x.tag = HiddenTag(layer - 1)
            /\ steps = DecoderSteps(layer - 1))
    /\ [](Returned =>
            /\ steps = DecoderSteps(cfg.num_layers) \o <<"decoder.fc_out">>
            /\ x.tag = HiddenTag(cfg.num_layers)
            /\ out = Linear(x, cfg.embed_size, cfg.trg_vocab_size, Tag("logits", 0))
            /\ out.tag = Tag("logits", 0))
    /\ [][(Started /\ EncoderReturned /\ ~Returned) =>
            (enc_out' = enc_out /\ src_mask' = src_mask /\ trg_mask' = trg_mask)]_vars

\* the second layer of a two-layer decoder has run
C12_Witness ==
    /\ DecoderLayerRan
    /\ cfg.num_layers = 2 /\ layer = 3
    /\ calls[1].value = Tag("decoder.cross", 1)
    /\ calls[2].value = Tag("encoder", 2)
    /\ calls[2].query = Tag("query", 2)
    /\ x.tag = Tag("decoder.cross", 2)

(***************************************************************************)
(* C13: with dropout 0 and the weights fixed, the logits forward returns   *)
(* for a batch element at positions 0..i are the same for every two        *)
(* target batches of the same shape that hold the same tokens at positions *)
(* 0..i of that element, whatever the source and the number of decoder     *)
(* layers.  The logits at position i are a function of the target tokens   *)
(* of that element at the positions up to i and of no other target token,  *)
(* and of the token at i alone when there is no layer: positions mix in    *)
(* the masked self-attention only.  The keys an attention output is taken  *)
(* to read are those of an unmasked energy or a nonzero probability in the *)
(* attention the call computed.                                            *)
(***************************************************************************)
C13_NoFutureInfluence ==
    /\ \A i \in CallIdx : \A b \in 1..calls[i].N : \A q \in 1..calls[i].query_len :
          KeptKeys(cfg, calls[i].mask, b, q, calls[i].key_len) =
              { k \in Keys(i) : \E h \in 1..cfg.heads :
                    \/ ~Masked(i, <<b, h, q>>, k)
                    \/ Row(i, <<b, h, q>>).num[k] > 0 }
    /\ (Returned /\ cfg.dropout = 0) =>
          /\ out.ok /\ out.noise = {}
          /\ Len(reads.out) = BatchSize
          /\ \A b \in 1..BatchSize :
                /\ Len(reads.out[b]) = TrgLen
                /\ \A i \in 1..TrgLen :
                      TrgReads(reads.out[b][i]) =
                          IF cfg.num_layers = 0
                          THEN { <<"trg", b, i, trg[b][i]>> }
                          ELSE { <<"trg", b, j, trg[b][j]>> : j \in 1..i }
          /\ DOMAIN reads.others = Variants(cfg, trg)
          /\ \A u \in DOMAIN reads.others :
                \A b \in 1..BatchSize : \A i \in 1..TrgLen :
                    AgreeUpTo(trg, u, b, i) => reads.others[u][b][i] = reads.out[b][i]

\* the six-layer decoder of the __main__ cell: another last token of the
\* first target changes the logits at the last position and at no other
C13_Witness ==
    /\ Returned /\ cfg = SmokeConfig /\ weights = "future"
    /\ LET u == [trg EXCEPT ![1][TrgLen] = 0] IN
           /\ u \in DOMAIN reads.others /\ u # trg
           /\ reads.others[u][1][TrgLen] # reads.out[1][TrgLen]
           /\ \A i \in 1..(TrgLen - 1) : reads.others[u][1][i] = reads.out[1][i]
           /\ reads.others[u][2] = reads.out[2]

=============================================================================
